---- MODULE Spec2Model ----
(***************************************************************************)
(* A model of the bags.fm migration bot: the scraper's record normaliser   *)
(* (both parseTokenLaunches variants of BagsFmScraper.ts), the JSON-file   *)
(* ledger of DatabaseManager, and the polling cycle of BagsFmBot.          *)
(*                                                                         *)
(* Conventions.  A string is a tuple of one-letter strings, so that        *)
(* toLowerCase is a real conversion; the empty tuple stands for both       *)
(* undefined and "" (JavaScript treats both as falsy, and the code only    *)
(* ever tests these fields for truthiness).  An instant is a natural       *)
(* number of hours; 0 in a raw record's date field means the field is      *)
(* absent.  A number that may be undefined uses NoNum for undefined.       *)
(***************************************************************************)
EXTENDS Integers, Sequences, FiniteSets, TLC

\* ------------------------------------------------------------------ bounds
\* longest token list a fetch returns
MaxFetch == 2
\* cycles the cron job and /check trigger in one behaviour; every start()
\* runs its initial check on top of these
MaxCycles == 1
\* process restarts in one behaviour
MaxRestarts == 1
\* /clear commands in one behaviour
MaxClears == 1
\* ledger operations in one behaviour of the ledger specification
MaxOps == 4
\* largest limit passed to getRecentMigrations
MaxLimit == 2

\* entries in the ledger file getStats is tried on
MaxStatsEntries == 2

\* ------------------------------------------------------- program constants
\* hasCrossed100kMcap: marketCap >= 100000
McapThreshold == 100000
\* marketCap = token.price * 1000000000
AssumedSupply == 1000000000

\* undefined, for an optional number
NoNum == 0 - 1

\* an invalid date string: new Date(s) is an Invalid Date (NaN)
InvalidDate == 0 - 1

\* ------------------------------------------------------------------ strings
LowerChar(c) ==
    CASE c = "A" -> "a"
      [] c = "B" -> "b"
      [] c = "C" -> "c"
      [] c = "D" -> "d"
      [] c = "E" -> "e"
      [] c = "K" -> "k"
      [] c = "N" -> "n"
      [] c = "S" -> "s"
      [] c = "U" -> "u"
      [] c = "X" -> "x"
      [] c = "Y" -> "y"
      [] OTHER -> c

\* String.prototype.toLowerCase
toLowerCase(s) == [i \in DOMAIN s |-> LowerChar(s[i])]

\* JavaScript truthiness of a string field
Truthy(s) == s # <<>>

Digits == <<"0", "1", "2", "3", "4", "5", "6", "7", "8", "9">>

\* the decimal digit of a small counter, as a letter
Digit(n) == Digits[(n % 10) + 1]

\* the letters [a-zA-Z0-9] of the model's alphabet
IsAlnum(c) ==
    c \in {"A", "B", "C", "D", "E", "K", "N", "S", "U", "X", "Y", "a", "b", "c", "d", "e", "n", "s", "x", "y",
           "t", "o", "k", "u", "f", "i",
           "0", "1", "2", "3", "4", "5", "6", "7", "8", "9"}

\* s.replace(/[^a-zA-Z0-9]/g, '')
RECURSIVE StripNonAlnum(_)
StripNonAlnum(s) ==
    IF s = <<>> THEN <<>>
    ELSE (IF IsAlnum(Head(s)) THEN <<Head(s)>> ELSE <<>>) \o StripNonAlnum(Tail(s))

\* how a template literal renders a string field: undefined prints as "undefined"
Rendered(s) == IF s = <<>> THEN <<"u", "n", "d", "e", "f", "i", "n", "e", "d">> ELSE s

\* --------------------------------------------------------------- numbers
\* a price is a fraction num/den of a dollar; NoPrice is undefined
NoPrice == [num |-> NoNum, den |-> 1]

\* JavaScript truthiness of an optional number: defined and not 0
NumTruthy(n) == n # NoNum /\ n # 0

PriceTruthy(p) == p.num # NoNum /\ p.num # 0

\* token.price * 1000000000, for a price num/den whose den divides the supply
\* (the prices of the model give whole dollars, as the floating-point product does)
TimesSupply(p) == p.num * (AssumedSupply \div p.den)

\* ------------------------------------------------------------------- dates
\* a Date object of the running program, or the ISO string JSON.stringify
\* turns it into (json = TRUE); ms = InvalidDate for an Invalid Date
DateObj(t) == [ms |-> t, json |-> FALSE]

\* new Date(x) for x a Date or an ISO string
NewDate(d) == [ms |-> d.ms, json |-> FALSE]

\* JSON.stringify of a Date, read back by JSON.parse: an ISO string
DateToJson(d) == [ms |-> d.ms, json |-> TRUE]

\* -------------------------------------------------------- the raw records
\* BagsApiToken, reduced to the fields the normaliser reads.  nul = TRUE
\* is a null element of the token list.
RawToken(addr, name, symbol, mcap, price) ==
    [nul |-> FALSE, tokenAddress |-> addr, name |-> name, symbol |-> symbol,
     createdAt |-> 0, migratedAt |-> 0, launchedAt |-> 0,
     bondingCompletedAt |-> 0, completedAt |-> 0,
     bcCompleted |-> FALSE, bcCompletedAt |-> 0, migrated |-> FALSE,
     marketCap |-> mcap, price |-> price, image |-> FALSE]

\* let marketCap = token.marketCap; if (!marketCap && token.price) marketCap = token.price * 1000000000
DerivedMarketCap(token) ==
    IF ~NumTruthy(token.marketCap) /\ PriceTruthy(token.price)
    THEN TimesSupply(token.price)
    ELSE token.marketCap

\* a slip: launchedAt is left out of the chain
PickMigrationField_withoutLaunchedAt(token) ==
    IF token.bcCompletedAt # 0 THEN token.bcCompletedAt
    ELSE IF token.migratedAt # 0 THEN token.migratedAt
    ELSE IF token.bondingCompletedAt # 0 THEN token.bondingCompletedAt
    ELSE IF token.completedAt # 0 THEN token.completedAt
    ELSE token.createdAt

\* the if / else-if chain that picks migrationDate; 0 stands for "none of the
\* fields is present" (new Date() is kept)
PickMigrationField(token) ==
    IF token.bcCompletedAt # 0 THEN token.bcCompletedAt
    ELSE IF token.migratedAt # 0 THEN token.migratedAt
    ELSE IF token.launchedAt # 0 THEN token.launchedAt
    ELSE IF token.bondingCompletedAt # 0 THEN token.bondingCompletedAt
    ELSE IF token.completedAt # 0 THEN token.completedAt
    ELSE token.createdAt

MigrationDateOf(token, now) ==
    IF PickMigrationField(token) # 0 THEN PickMigrationField(token) ELSE now

CreatedDateOf(token, now) == IF token.createdAt # 0 THEN token.createdAt ELSE now

\* a slip: the duration is kept whenever the dates differ
BondingDurationOf_unsigned(token, now) ==
    LET m == MigrationDateOf(token, now)
        c == CreatedDateOf(token, now)
    IN  IF m # InvalidDate /\ c # InvalidDate /\ m # c
        THEN (IF m > c THEN m - c ELSE c - m)
        ELSE NoNum

\* bondingDuration: set only when migrationDate > createdDate (a comparison
\* with an Invalid Date is false); in hours
BondingDurationOf(token, now) ==
    LET m == MigrationDateOf(token, now)
        c == CreatedDateOf(token, now)
    IN  IF m # InvalidDate /\ c # InvalidDate /\ m > c THEN m - c ELSE NoNum

\* hasCompletedBonding of the getNewMigrations variant
hasCompletedBonding(token) ==
    \/ token.bcCompleted
    \/ token.migrated
    \/ token.migratedAt # 0
    \/ token.bondingCompletedAt # 0
    \/ token.completedAt # 0

\* a slip: the threshold compared with > instead of >=
hasCrossed100kMcap_exclusive(token) ==
    NumTruthy(DerivedMarketCap(token)) /\ DerivedMarketCap(token) > McapThreshold

\* hasCrossed100kMcap = marketCap && marketCap >= 100000
hasCrossed100kMcap(token) ==
    NumTruthy(DerivedMarketCap(token)) /\ DerivedMarketCap(token) >= McapThreshold

\* 'Unknown Token' and 'UNKNOWN', shortened
UnknownName == <<"U", "n", "k">>

UnknownSymbol == <<"U", "N", "K">>

\* the MigratedToken object both variants build
MigratedToken(token, now, id, toChain, completed) ==
    [id |-> id,
     name |-> IF Truthy(token.name) THEN token.name ELSE UnknownName,
     symbol |-> IF Truthy(token.symbol) THEN token.symbol ELSE UnknownSymbol,
     contractAddress |-> token.tokenAddress,
     migrationDate |-> DateObj(MigrationDateOf(token, now)),
     createdAt |-> DateObj(CreatedDateOf(token, now)),
     toChain |-> toChain,
     marketCap |-> DerivedMarketCap(token),
     price |-> token.price,
     bondingDuration |-> BondingDurationOf(token, now),
     image |-> token.image,
     bondingCompleted |-> completed]

\* one iteration of the loop of parseTokenLaunches (getNewMigrations variant):
\* the tokens it pushes, none when the record is skipped or throws
NormalizeGetNew(token, now) ==
    IF token.nul THEN <<>>
    ELSE IF ~hasCompletedBonding(token) /\ ~hasCrossed100kMcap(token) THEN <<>>
    ELSE IF MigrationDateOf(token, now) = InvalidDate THEN <<>>
    ELSE << MigratedToken(token, now,
              IF Truthy(token.tokenAddress) THEN token.tokenAddress
              ELSE StripNonAlnum(<<"t", "o", "k", "e", "n", "-">> \o Rendered(token.symbol)
                                   \o <<"-">> \o Rendered(token.name)),
              IF hasCrossed100kMcap(token) THEN "Bags.fm 100k+ Launch" ELSE "Bags.fm Launch",
              IF hasCompletedBonding(token) THEN "true" ELSE "false") >>

\* `token-${Date.now()}-${Math.random()}`: the clock and a draw
RandomId(now, rnd) == <<"t", "o", "k", "e", "n", "-", Digit(now), "-", Digit(rnd)>>

\* one iteration of the loop of parseTokenLaunches (fetchMigrations variant)
NormalizeFetch(token, now, rnd) ==
    IF token.nul THEN <<>>
    ELSE IF MigrationDateOf(token, now) = InvalidDate THEN <<>>
    ELSE << MigratedToken(token, now,
              IF Truthy(token.tokenAddress) THEN token.tokenAddress ELSE RandomId(now, rnd),
              "Bags.fm Launch", "undefined") >>

\* whether the fetchMigrations variant draws Math.random() for this record
DrawsId(token, now) ==
    ~token.nul /\ MigrationDateOf(token, now) # InvalidDate /\ ~Truthy(token.tokenAddress)

\* the loop of parseTokenLaunches (getNewMigrations variant) over tokenList
RECURSIVE parseTokenLaunches_getNew(_, _)
parseTokenLaunches_getNew(list, now) ==
    IF list = <<>> THEN <<>>
    ELSE NormalizeGetNew(Head(list), now) \o parseTokenLaunches_getNew(Tail(list), now)

\* a slip: no try around the loop body, the first failure ends the batch
RECURSIVE parseTokenLaunches_fetch_noTry(_, _, _)
parseTokenLaunches_fetch_noTry(list, now, rnd) ==
    IF list = <<>> THEN <<>>
    ELSE IF Head(list).nul \/ MigrationDateOf(Head(list), now) = InvalidDate THEN <<>>
    ELSE NormalizeFetch(Head(list), now, rnd + 1)
            \o parseTokenLaunches_fetch_noTry(Tail(list), now,
                                              IF DrawsId(Head(list), now) THEN rnd + 1 ELSE rnd)

\* the loop of parseTokenLaunches (fetchMigrations variant) over tokenList;
\* rnd counts the draws made so far, and no two draws are equal
RECURSIVE parseTokenLaunches_fetch(_, _, _)
parseTokenLaunches_fetch(list, now, rnd) ==
    IF list = <<>> THEN <<>>
    ELSE NormalizeFetch(Head(list), now, rnd + 1)
            \o parseTokenLaunches_fetch(Tail(list), now,
                                        IF DrawsId(Head(list), now) THEN rnd + 1 ELSE rnd)

RECURSIVE DrawCount(_, _)
DrawCount(list, now) ==
    IF list = <<>> THEN 0
    ELSE (IF DrawsId(Head(list), now) THEN 1 ELSE 0) + DrawCount(Tail(list), now)

\* ------------------------------------------------------ the ledger store
\* DatabaseManager.data.  shape is "ok" for a DatabaseData object; the other
\* shapes are what JSON.parse can hand to initialize(): "null" (the value
\* null), "nomig" (an object with no migrations field), "badmig" (an object
\* whose migrations field is not an array).
EmptyData(now) == [shape |-> "ok", migrations |-> <<>>, lastUpdated |-> now]

\* the durable file: missing, not parsable, or a JSON text
MissingFile == [kind |-> "missing", shape |-> "", migrations |-> <<>>, lastUpdated |-> 0]

GarbageFile == [kind |-> "garbage", shape |-> "", migrations |-> <<>>, lastUpdated |-> 0]

JsonFile(shape, migrations, lastUpdated) ==
    [kind |-> "json", shape |-> shape, migrations |-> migrations, lastUpdated |-> lastUpdated]

\* JSON.stringify of one ledger entry: its Date fields become ISO strings
EntryToJson(m) ==
    [m EXCEPT !.migrationDate = DateToJson(@), !.createdAt = DateToJson(@)]

\* a slip: the newest entry is left out of the serialized text
Stringify_withoutNewest(d) ==
    JsonFile(d.shape,
             [i \in 1 .. (Len(d.migrations) - 1) |-> EntryToJson(d.migrations[i + 1])],
             d.lastUpdated)

\* JSON.stringify(this.data, null, 2)
Stringify(d) ==
    JsonFile(d.shape, [i \in DOMAIN d.migrations |-> EntryToJson(d.migrations[i])], d.lastUpdated)

\* JSON.parse(fileContent), for a file of kind "json"
JsonParse(f) == [shape |-> f.shape, migrations |-> f.migrations, lastUpdated |-> f.lastUpdated]

\* new Date(m.migrationDate).getTime()
GetTime(m) == NewDate(m.migrationDate).ms

\* one step of a stable sort, newest first: x goes behind every entry that is
\* not older than it
RECURSIVE InsertByDate(_, _)
InsertByDate(sorted, x) ==
    IF sorted = <<>> THEN <<x>>
    ELSE IF GetTime(Head(sorted)) >= GetTime(x)
         THEN <<Head(sorted)>> \o InsertByDate(Tail(sorted), x)
         ELSE <<x>> \o sorted

\* migrations.sort((a, b) => new Date(b.migrationDate).getTime() - new Date(a.migrationDate).getTime())
RECURSIVE SortNewestFirst(_)
SortNewestFirst(ms) ==
    IF ms = <<>> THEN <<>>
    ELSE InsertByDate(SortNewestFirst(SubSeq(ms, 1, Len(ms) - 1)), ms[Len(ms)])

\* migrations.filter(m => m.id !== migration.id)
RECURSIVE WithoutId(_, _)
WithoutId(ms, id) ==
    IF ms = <<>> THEN <<>>
    ELSE (IF Head(ms).id # id THEN <<Head(ms)>> ELSE <<>>) \o WithoutId(Tail(ms), id)

\* the in-memory part of saveMigration, up to the call of saveData; it throws
\* (a TypeError) unless data.migrations is an array
SaveMigrationThrows(d) == d.shape # "ok"

\* a slip: the filter keeps only the entry with the same id
SaveMigrationEntries_dropOthers(d, migration) ==
    <<[migration EXCEPT !.migrationDate = NewDate(@)]>>

\* a slip: the entry with the same id is not removed first
SaveMigrationEntries_noFilter(d, migration) ==
    SortNewestFirst(Append(d.migrations, [migration EXCEPT !.migrationDate = NewDate(@)]))

\* a slip: the entry is pushed and the array is left as it is
SaveMigrationEntries_noSort(d, migration) ==
    Append(WithoutId(d.migrations, migration.id),
           [migration EXCEPT !.migrationDate = NewDate(@)])

SaveMigrationEntries(d, migration) ==
    SortNewestFirst(
        Append(WithoutId(d.migrations, migration.id),
               [migration EXCEPT !.migrationDate = NewDate(@)]))

\* saveData's first statement: this.data.lastUpdated = new Date().toISOString()
Touch(d, now) == [d EXCEPT !.lastUpdated = now]

\* a slip: the addresses compared as they are, without toLowerCase
ExistsByContract_exact(d, token) ==
    /\ Truthy(token.contractAddress)
    /\ \E i \in DOMAIN d.migrations : d.migrations[i].contractAddress = token.contractAddress

\* a slip: symbol and name compared as they are, without toLowerCase
ExistsBySymbolName_exact(d, token) ==
    \E i \in DOMAIN d.migrations :
       /\ d.migrations[i].symbol = token.symbol
       /\ d.migrations[i].name = token.name

\* the three tiers of migrationExistsByDetails
ExistsByContract(d, token) ==
    /\ Truthy(token.contractAddress)
    /\ \E i \in DOMAIN d.migrations :
          /\ Truthy(d.migrations[i].contractAddress)
          /\ toLowerCase(d.migrations[i].contractAddress) = toLowerCase(token.contractAddress)

ExistsBySymbolName(d, token) ==
    \E i \in DOMAIN d.migrations :
       /\ toLowerCase(d.migrations[i].symbol) = toLowerCase(token.symbol)
       /\ toLowerCase(d.migrations[i].name) = toLowerCase(token.name)

ExistsById(d, token) ==
    \E i \in DOMAIN d.migrations : d.migrations[i].id = token.id

\* a slip: a token with an address is looked up by its address alone
migrationExistsByDetails_addressOnly(d, token) ==
    IF d.shape # "ok" THEN FALSE
    ELSE IF Truthy(token.contractAddress) THEN ExistsByContract(d, token)
    ELSE ExistsBySymbolName(d, token) \/ ExistsById(d, token)

\* migrationExistsByDetails: a TypeError (migrations is no array) is caught
\* and answered with false
migrationExistsByDetails(d, token) ==
    IF d.shape # "ok" THEN FALSE
    ELSE ExistsByContract(d, token) \/ ExistsBySymbolName(d, token) \/ ExistsById(d, token)

\* the default of getRecentMigrations(limit: number = 10)
DefaultLimit == 10

\* a slip: slice(1, limit + 1), the newest entry is skipped
getRecentMigrations_skipFirst(d, limit) ==
    IF d.shape # "ok" THEN <<>>
    ELSE LET n == IF limit = NoNum THEN DefaultLimit ELSE limit
             k == IF n < Len(d.migrations) - 1 THEN n ELSE Len(d.migrations) - 1
         IN  [i \in 1 .. k |-> [d.migrations[i + 1] EXCEPT !.migrationDate = NewDate(@)]]

\* getRecentMigrations: migrations.slice(0, limit) with migrationDate made a
\* Date again; a TypeError (migrations is no array) is answered with [].
\* limit is NoNum for a call without argument, else a count from 0 up.
getRecentMigrations(d, limit) ==
    IF d.shape # "ok" THEN <<>>
    ELSE LET n == IF limit = NoNum THEN DefaultLimit ELSE limit
             k == IF n < Len(d.migrations) THEN n ELSE Len(d.migrations)
         IN  [i \in 1 .. k |-> [d.migrations[i] EXCEPT !.migrationDate = NewDate(@)]]

\* instants are hours; setHours(0, 0, 0, 0) goes back to the start of the day
HoursPerDay == 24

DaysPerWeek == 7

StartOfDay(t) == t - (t % HoursPerDay)

\* a slip: the week counted back from the current instant, not from the
\* start of its day
getStats_weekFromNow(d, t) ==
    IF d.shape # "ok" THEN [totalMigrations |-> 0, migrationsToday |-> 0, migrationsThisWeek |-> 0]
    ELSE [totalMigrations |-> Len(d.migrations),
          migrationsToday |->
             Cardinality({i \in DOMAIN d.migrations :
                             StartOfDay(GetTime(d.migrations[i])) >= StartOfDay(t)}),
          migrationsThisWeek |->
             Cardinality({i \in DOMAIN d.migrations :
                             GetTime(d.migrations[i]) >= t - DaysPerWeek * HoursPerDay})]

\* getStats: total, entries dated today, entries dated since the start of
\* the day seven days ago; zeros when migrations is no array
getStats(d, t) ==
    IF d.shape # "ok" THEN [totalMigrations |-> 0, migrationsToday |-> 0, migrationsThisWeek |-> 0]
    ELSE [totalMigrations |-> Len(d.migrations),
          migrationsToday |->
             Cardinality({i \in DOMAIN d.migrations :
                             StartOfDay(GetTime(d.migrations[i])) >= StartOfDay(t)}),
          migrationsThisWeek |->
             Cardinality({i \in DOMAIN d.migrations :
                             GetTime(d.migrations[i])
                                >= StartOfDay(t - DaysPerWeek * HoursPerDay)})]

\* a slip: clearDatabase only renews the timestamp
clearDatabase_keepsEntries(d, t) == Touch(d, t)

\* clearDatabase, up to its call of saveData: this.data is a new object with
\* no migrations, whatever it was before
clearDatabase(d, t) == EmptyData(t)

\* initialize(): what it leaves in memory, in the file, and whether it raised.
\* d0 is the constructor's data; writeOk is whether fs.writeFile succeeds.
InitializeResult(f, d0, now, writeOk) ==
    IF f.kind = "json" /\ f.shape = "ok"
    THEN [data |-> JsonParse(f), file |-> f, raised |-> FALSE]
    ELSE IF f.kind = "json" /\ f.shape = "badmig"
    THEN [data |-> JsonParse(f), file |-> f, raised |-> FALSE]
    ELSE IF f.kind = "json" /\ f.shape = "null"
    THEN [data |-> JsonParse(f), file |-> f, raised |-> TRUE]
    ELSE LET d == IF f.kind = "json" THEN JsonParse(f) ELSE d0
         IN  [data |-> Touch(d, now),
              file |-> IF writeOk THEN Stringify(Touch(d, now)) ELSE f,
              raised |-> ~writeOk]

\* --------------------------------------------------------- the upstream feed
\* The records the model's feed can serve.  R1 sits exactly on the market-cap
\* threshold; R2 carries R1's address in another letter case and is below
\* the threshold with no completion signal; R3 has no address, R1's symbol
\* and name in lower case, and a price of 0.0001; R4 has its own address,
\* R1's symbol and name, and is migrated.
R1 == RawToken(<<"A", "b">>, <<"N">>, <<"S">>, McapThreshold, NoPrice)

R2 == RawToken(<<"a", "B">>, <<"Y">>, <<"X">>, McapThreshold - 1, NoPrice)

R3 == RawToken(<<>>, <<"n">>, <<"s">>, NoNum, [num |-> 1, den |-> 10000])

R4 == [RawToken(<<"C", "d">>, <<"N">>, <<"S">>, NoNum, NoPrice)
         EXCEPT !.migrated = TRUE, !.createdAt = 1, !.migratedAt = 2, !.image = TRUE]

Feed == {R1, R2, R3, R4}

\* ------------------------------------------------------------------- state
VARIABLES
    data,       \* DatabaseManager.data, the in-memory ledger
    file,       \* the content of the durable file
    up,         \* the process: "new" (constructed), "up" (started), "exited"
    now,        \* the clock: new Date(), Date.now()
    rnd,        \* how many Math.random() draws were made
    procs,      \* the invocations of checkForNewMigrations in progress
    clr,        \* the /clear handler: its file write in flight
    sent,       \* every token handed to sendMigrationNotification, in order
    count,      \* how many cycles, restarts and clears there were
    aborted,    \* whether some cycle was cut short (a failed write, a throw, the process ending)
    last,       \* the cycle that ended last
    last2,      \* the cycle that ended before it
    ret,        \* the ledger specification: the last call and what it returned
    tokenList,  \* the normaliser specification: the input list
    parsed,     \* the normaliser specification: what the two variants returned
    env         \* process.env: which of the settings main() insists on are set

botVars == <<procs, clr, sent, count, aborted, last, last2, env>>

vars == <<data, file, up, now, rnd, procs, clr, sent, count, aborted, last, last2,
          ret, tokenList, parsed, env>>

\* most cycles in progress at once
MaxOverlap == 2

Procs == 1 .. MaxOverlap

\* what axios.get resolves to: a token list, or a failure (ok = FALSE)
FetchFailure == [ok |-> FALSE, list |-> <<>>]

RECURSIVE ListsUpTo(_)
ListsUpTo(n) ==
    IF n = 0 THEN {<<>>}
    ELSE ListsUpTo(n - 1) \cup {Append(l, r) : l \in {x \in ListsUpTo(n - 1) : Len(x) = n - 1}, r \in Feed}

Responses == {FetchFailure} \cup {[ok |-> TRUE, list |-> l] : l \in ListsUpTo(MaxFetch)}

\* a slip: the catch of fetchMigrations hands on a list of its own
fetchMigrations_noCatch(resp, t, r) ==
    IF resp.ok THEN parseTokenLaunches_fetch(resp.list, t, r)
    ELSE parseTokenLaunches_fetch(<<R1>>, t, r)

\* fetchMigrations: the parsed list; [] when axios.get rejects (transport
\* error, timeout, status outside 2xx), when the status is not 200, and
\* when parseTokenLaunches finds none of its four envelope shapes or throws
\* on the body.  All of these are the response with ok = FALSE.
fetchMigrations(resp, t, r) ==
    IF resp.ok THEN parseTokenLaunches_fetch(resp.list, t, r) ELSE <<>>

\* process.env with both TELEGRAM_BOT_TOKEN and TELEGRAM_CHAT_ID set
FullEnv == [token |-> TRUE, chatId |-> TRUE]

\* a slot with no cycle in it
IdleProc ==
    [pc |-> "idle", trigger |-> "", cyc |-> 0, resp |-> FetchFailure, launches |-> <<>>,
     i |-> 0, news |-> <<>>, j |-> 0, snap |-> MissingFile]

NoCycle == [cyc |-> 0, resp |-> FetchFailure, launches |-> <<>>, entries |-> <<>>,
            nnew |-> 0, nsent |-> 0, full |-> FALSE]

\* after is the number of cycles started when the last /clear came (0: none)
NoClear == [pc |-> "idle", snap |-> MissingFile, after |-> 0]

BotIdle ==
    /\ procs = [p \in Procs |-> IdleProc]
    /\ clr = NoClear
    /\ sent = <<>>
    /\ count = [cycles |-> 0, started |-> 0, restarts |-> 0, clears |-> 0]
    /\ aborted = FALSE
    /\ last = NoCycle
    /\ last2 = NoCycle

NotParsed == [ranGetNew |-> FALSE, getNew |-> <<>>, ranFetch |-> FALSE, fetch |-> <<>>]

NoCall == [op |-> "none", arg |-> <<>>, val |-> FALSE, threw |-> FALSE,
           pre |-> <<>>, filePre |-> MissingFile, wok |-> TRUE,
           prevOp |-> "none", prevArg |-> <<>>]

\* the record of a call: its argument, result, the entries and the file it
\* found, and whether the file system let its write through
Call(op, arg, val, threw, pre, wok) ==
    [op |-> op, arg |-> arg, val |-> val, threw |-> threw, pre |-> pre,
     filePre |-> file, wok |-> wok, prevOp |-> ret.op, prevArg |-> ret.arg]

\* the files the program can find at its first start
StartFiles ==
    {MissingFile, GarbageFile, JsonFile("null", <<>>, 0), JsonFile("nomig", <<>>, 0),
     JsonFile("badmig", <<>>, 0), JsonFile("ok", <<>>, 0)}

\* ------------------------------------------- the ledger store, call by call
\* Every call is awaited by its one caller, so a call and its file write are
\* one step; the write succeeds or fails.
LedgerInit ==
    /\ data = EmptyData(0)
    /\ file \in StartFiles
    /\ up = "new"
    /\ now = 1
    /\ rnd = 0
    /\ ret = NoCall
    /\ tokenList = <<>>
    /\ parsed = NotParsed
    /\ BotIdle
    /\ env = FullEnv

\* the tokens a caller can pass: what the scraper builds now, or the object
\* it passed to the previous record()
CallerTokens ==
    {NormalizeFetch(r, now, 1)[1] : r \in Feed}
        \cup (IF ret.op = "record" THEN {ret.arg[1]} ELSE {})

LedgerInitialize(writeOk) ==
    /\ up = "new"
    /\ LET r == InitializeResult(file, data, now, writeOk)
       IN  /\ data' = r.data
           /\ file' = r.file
           /\ up' = IF r.raised THEN "exited" ELSE "up"
           /\ ret' = Call("initialize", <<>>, FALSE, r.raised, data.migrations, writeOk)
    /\ now' = now + 1
    /\ UNCHANGED <<rnd, tokenList, parsed, botVars>>

LedgerRecord(token, writeOk) ==
    /\ up = "up"
    /\ now <= MaxOps
    /\ IF SaveMigrationThrows(data)
       THEN /\ ret' = Call("record", <<token>>, FALSE, TRUE, data.migrations, writeOk)
            /\ UNCHANGED <<data, file>>
       ELSE LET d == Touch([data EXCEPT !.migrations = SaveMigrationEntries(data, token)], now)
            IN  /\ data' = d
                /\ file' = IF writeOk THEN Stringify(d) ELSE file
                /\ ret' = Call("record", <<token>>, FALSE, ~writeOk, data.migrations, writeOk)
    /\ now' = now + 1
    /\ UNCHANGED <<up, rnd, tokenList, parsed, botVars>>

LedgerExists(token) ==
    /\ up = "up"
    /\ now <= MaxOps
    /\ ret' = Call("exists", <<token>>, migrationExistsByDetails(data, token), FALSE,
                   data.migrations, TRUE)
    /\ now' = now + 1
    /\ UNCHANGED <<data, file, up, rnd, tokenList, parsed, botVars>>

\* clearDatabase
LedgerClear(writeOk) ==
    /\ up = "up"
    /\ now <= MaxOps
    /\ data' = clearDatabase(data, now)
    /\ file' = IF writeOk THEN Stringify(clearDatabase(data, now)) ELSE file
    /\ ret' = Call("clear", <<>>, FALSE, ~writeOk, data.migrations, writeOk)
    /\ now' = now + 1
    /\ UNCHANGED <<up, rnd, tokenList, parsed, botVars>>

\* the process ends and a new one is constructed on the same file
LedgerRestart ==
    /\ up # "new"
    /\ now <= MaxOps
    /\ data' = EmptyData(now)
    /\ up' = "new"
    /\ ret' = Call("restart", <<>>, FALSE, FALSE, data.migrations, TRUE)
    /\ UNCHANGED <<file, now, rnd, tokenList, parsed, botVars>>

\* the limits a caller of getRecentMigrations passes; NoNum is no argument
Limits == {NoNum} \cup (0 .. MaxLimit)

LedgerRecent(limit) ==
    /\ up = "up"
    /\ now <= MaxOps
    /\ ret' = Call("recent", <<limit>>, getRecentMigrations(data, limit), FALSE,
                   data.migrations, TRUE)
    /\ now' = now + 1
    /\ UNCHANGED <<data, file, up, rnd, tokenList, parsed, botVars>>

\* a slip: getStats sets the hours of the stored dates, not of copies
LedgerStats_floorsDates ==
    /\ up = "up"
    /\ now <= MaxOps
    /\ ret' = Call("stats", <<>>, getStats(data, now), FALSE, data.migrations, TRUE)
    /\ data' = [data EXCEPT !.migrations =
                  [i \in DOMAIN data.migrations |->
                      [data.migrations[i] EXCEPT
                          !.migrationDate = DateObj(StartOfDay(GetTime(data.migrations[i])))]]]
    /\ now' = now + 1
    /\ UNCHANGED <<file, up, rnd, tokenList, parsed, botVars>>

LedgerStats ==
    /\ up = "up"
    /\ now <= MaxOps
    /\ ret' = Call("stats", <<>>, getStats(data, now), FALSE, data.migrations, TRUE)
    /\ now' = now + 1
    /\ UNCHANGED <<data, file, up, rnd, tokenList, parsed, botVars>>

LedgerNext ==
    \/ \E w \in BOOLEAN : LedgerInitialize(w)
    \/ \E t \in CallerTokens, w \in BOOLEAN : LedgerRecord(t, w)
    \/ \E t \in CallerTokens : LedgerExists(t)
    \/ \E l \in Limits : LedgerRecent(l)
    \/ LedgerStats
    \/ \E w \in BOOLEAN : LedgerClear(w)
    \/ LedgerRestart

LedgerSpec == LedgerInit /\ [][LedgerNext]_vars

\* ------------------------------------------------ the normaliser, on its own
\* The records the normaliser is tried on: every market cap around the
\* threshold, every kind of price, and each upstream field that could speak
\* of completion, one at a time.
McapInputs == {NoNum, 0, McapThreshold - 1, McapThreshold, McapThreshold + 1}

PriceInputs ==
    {NoPrice, [num |-> 0, den |-> 1], [num |-> 1, den |-> 10000],
     [num |-> 99999, den |-> AssumedSupply]}

SignalInputs ==
    {"none", "bondingCurve.completed", "bondingCurve.completedAt", "migrated", "migratedAt",
     "launchedAt", "bondingCompletedAt", "completedAt"}

WithSignal(r, sig) ==
    [r EXCEPT !.bcCompleted = (sig = "bondingCurve.completed"),
              !.bcCompletedAt = IF sig = "bondingCurve.completedAt" THEN 2 ELSE 0,
              !.migrated = (sig = "migrated"),
              !.migratedAt = IF sig = "migratedAt" THEN 2 ELSE 0,
              !.launchedAt = IF sig = "launchedAt" THEN 2 ELSE 0,
              !.bondingCompletedAt = IF sig = "bondingCompletedAt" THEN 2 ELSE 0,
              !.completedAt = IF sig = "completedAt" THEN 2 ELSE 0]

ParseInputs ==
    {WithSignal(RawToken(a, <<"N">>, <<"S">>, m, p), sig) :
        a \in {<<>>, <<"A", "b">>}, m \in McapInputs, p \in PriceInputs, sig \in SignalInputs}

\* a null in the token list, and a record whose migratedAt is no date
NullRecord == [R3 EXCEPT !.nul = TRUE]

BadDateRecord == [R3 EXCEPT !.migratedAt = InvalidDate]

\* batches of good and malformed records
MixedInputs == {R1, R3, NullRecord, BadDateRecord}

MixedBatches ==
    {<<a, b>> : a, b \in MixedInputs} \cup {<<a, b, c>> : a, b, c \in MixedInputs}

ParseInit ==
    /\ tokenList \in {<<r>> : r \in ParseInputs} \cup {<<r, q>> : r \in ParseInputs, q \in {R2, R3}}
    /\ parsed = NotParsed
    /\ data = EmptyData(0)
    /\ file = MissingFile
    /\ up = "new"
    /\ now = 1
    /\ rnd = 0
    /\ ret = NoCall
    /\ BotIdle
    /\ env = FullEnv

ParseGetNew ==
    /\ ~parsed.ranGetNew
    /\ parsed' = [parsed EXCEPT !.ranGetNew = TRUE,
                                !.getNew = parseTokenLaunches_getNew(tokenList, now)]
    /\ UNCHANGED <<data, file, up, now, rnd, ret, tokenList, botVars>>

ParseFetch ==
    /\ ~parsed.ranFetch
    /\ parsed' = [parsed EXCEPT !.ranFetch = TRUE,
                                !.fetch = parseTokenLaunches_fetch(tokenList, now, rnd)]
    /\ rnd' = rnd + DrawCount(tokenList, now)
    /\ UNCHANGED <<data, file, up, now, ret, tokenList, botVars>>

ParseNext == ParseGetNew \/ ParseFetch

ParseSpec == ParseInit /\ [][ParseNext]_vars

\* the same two parsers on batches that mix good and malformed records
BatchInit ==
    /\ tokenList \in MixedBatches
    /\ parsed = NotParsed
    /\ data = EmptyData(0)
    /\ file = MissingFile
    /\ up = "new"
    /\ now = 1
    /\ rnd = 0
    /\ ret = NoCall
    /\ BotIdle
    /\ env = FullEnv

BatchSpec == BatchInit /\ [][ParseNext]_vars

\* ------------------------------------------------- getStats, over the days
\* A ledger file written on earlier days and a clock in the ninth day: the
\* entries are dated around the two boundaries getStats compares with.
StatsDay == 8 * HoursPerDay

StatsWeekAgo == StatsDay - DaysPerWeek * HoursPerDay

\* an hour before and at the start of the day a week ago, an hour later,
\* an hour before and at the start of today, and an instant of tomorrow
StatsDates ==
    {StatsWeekAgo - 1, StatsWeekAgo, StatsWeekAgo + 1, StatsDay - 1, StatsDay,
     StatsDay + HoursPerDay + 1}

\* midnight (less the hour initialize takes), the morning and the last hour
StatsClocks == {StatsDay - 1, StatsDay + 1, StatsDay + HoursPerDay - 2}

StatsAddresses == << <<"A">>, <<"B">>, <<"C">> >>

\* the entry of a launch at tokenAddress a that migrated at instant t, as
\* the file holds it
StatsEntry(a, t) ==
    EntryToJson(NormalizeFetch([RawToken(a, <<"N">>, <<"S">>, NoNum, NoPrice)
                                   EXCEPT !.migratedAt = t], t, 1)[1])

\* Init draws the files saveMigration can have left: entries of different
\* addresses, newest first
StatsInit ==
    /\ data = EmptyData(0)
    /\ file \in (UNION {{JsonFile("ok",
                                  [i \in 1 .. n |-> StatsEntry(StatsAddresses[i], ts[i])],
                                  StatsDay - 1) :
                            ts \in {s \in [1 .. n -> StatsDates] :
                                       \A i \in 1 .. (n - 1) : s[i] >= s[i + 1]}} :
                        n \in 0 .. MaxStatsEntries})
    /\ up = "new"
    /\ now \in StatsClocks
    /\ rnd = 0
    /\ ret = NoCall
    /\ tokenList = <<>>
    /\ parsed = NotParsed
    /\ BotIdle
    /\ env = FullEnv

\* getStats, called at instant now
StatsGet ==
    /\ up = "up"
    /\ ret' = Call("stats", <<>>, getStats(data, now), FALSE, data.migrations, TRUE)
    /\ UNCHANGED <<data, file, up, now, rnd, tokenList, parsed, botVars>>

StatsNext ==
    \/ \E w \in BOOLEAN : LedgerInitialize(w)
    \/ StatsGet

StatsSpec == StatsInit /\ [][StatsNext]_vars

\* the two parsers on records that carry several date fields at once: every
\* choice of present fields, each field with a date of its own, createdAt
\* before or at the date of migratedAt; a market cap at the threshold lets
\* every record through the filter of the getNewMigrations variant
DateInputs ==
    {[RawToken(<<"A", "b">>, <<"N">>, <<"S">>, McapThreshold, NoPrice)
         EXCEPT !.bcCompletedAt = bc, !.migratedAt = mi, !.launchedAt = la,
                !.bondingCompletedAt = bo, !.completedAt = co, !.createdAt = cr] :
        bc \in {0, 3}, mi \in {0, 5}, la \in {0, 2}, bo \in {0, 6}, co \in {0, 7}, cr \in {0, 4, 5}}

\* the clock of the run: before and after the dates of the records
DateClocks == {1, 8}

DateInit ==
    /\ tokenList \in {<<r>> : r \in DateInputs}
    /\ parsed = NotParsed
    /\ data = EmptyData(0)
    /\ file = MissingFile
    /\ up = "new"
    /\ now \in DateClocks
    /\ rnd = 0
    /\ ret = NoCall
    /\ BotIdle
    /\ env = FullEnv

DateSpec == DateInit /\ [][ParseNext]_vars

\* ------------------------------------------------------------------ the bot
\* A cycle is one invocation of checkForNewMigrations.  Node runs it without
\* interruption from one await of real I/O to the next, so its steps are: the
\* fetch is issued; the fetch resolves and the loop runs up to its first
\* file write; a write resolves and the loop runs on to the next write or to
\* the first notification; a notification resolves.  The awaits of
\* migrationExistsByDetails resolve at once and give no other handler a turn.

\* the loop without its lookup: every launch is taken for new
FirstNew_noLookup(d, launches, i) == IF i <= Len(launches) THEN i ELSE 0

\* a slip: the lookup compares ids alone
FirstNew_idOnly(d, launches, i) ==
    IF \E k \in i .. Len(launches) : ~ExistsById(d, launches[k])
    THEN CHOOSE k \in i .. Len(launches) :
            /\ ~ExistsById(d, launches[k])
            /\ \A m \in i .. (k - 1) : ExistsById(d, launches[m])
    ELSE 0

\* the first index from i on whose launch migrationExistsByDetails denies; 0 if none
FirstNew(d, launches, i) ==
    IF \E k \in i .. Len(launches) : ~migrationExistsByDetails(d, launches[k])
    THEN CHOOSE k \in i .. Len(launches) :
            /\ ~migrationExistsByDetails(d, launches[k])
            /\ \A m \in i .. (k - 1) : migrationExistsByDetails(d, launches[m])
    ELSE 0

SentIn(log, cyc) == Cardinality({k \in DOMAIN log : log[k].cyc = cyc})

\* a slip: no catch around the cycle, an exception leaves it as a rejection
ReturnedSlot_noCatch(full) == IF full THEN IdleProc ELSE [IdleProc EXCEPT !.pc = "raised"]

\* the slot after checkForNewMigrations: it returned from its last statement
\* (full), or the catch of line 159 logged the exception and it returned
ReturnedSlot(full) == IdleProc

\* the cycle in slot p returns (full) or is cut short by the catch of line 159
EndCycle(p, pr, full, log, d) ==
    /\ procs' = [procs EXCEPT ![p] = ReturnedSlot(full)]
    /\ last2' = last
    /\ last' = [cyc |-> pr.cyc, resp |-> pr.resp, launches |-> pr.launches,
                entries |-> d.migrations, nnew |-> Len(pr.news),
                nsent |-> SentIn(log, pr.cyc), full |-> full]
    /\ aborted' = (aborted \/ ~full)

\* sendMigrationNotification(migration) is called
Handed(pr, migration) ==
    [tok |-> migration, cyc |-> pr.cyc, epoch |-> count.restarts, ok |-> "pending",
     photo |-> "none", text |-> "none"]

\* lines 142-157 from launch i on, with newMigrations = news, up to the next await
Advance(p, pr, i, news) ==
    LET k == FirstNew(data, pr.launches, i)
    IN  IF k = 0
        THEN IF news = <<>>
             THEN /\ EndCycle(p, pr, TRUE, sent, data)
                  /\ UNCHANGED <<data, sent>>
             ELSE /\ sent' = Append(sent, Handed(pr, news[1]))
                  /\ procs' = [procs EXCEPT ![p] =
                                 [pr EXCEPT !.pc = "sending", !.news = news, !.j = 1]]
                  /\ UNCHANGED <<data, last, last2, aborted>>
        ELSE IF SaveMigrationThrows(data)
        THEN /\ EndCycle(p, pr, FALSE, sent, data)
             /\ UNCHANGED <<data, sent>>
        ELSE LET d == Touch([data EXCEPT !.migrations =
                                SaveMigrationEntries(data, pr.launches[k])], now)
             IN  /\ data' = d
                 /\ procs' = [procs EXCEPT ![p] =
                                [pr EXCEPT !.pc = "writing", !.i = k, !.news = news,
                                           !.snap = Stringify(d)]]
                 /\ UNCHANGED <<sent, last, last2, aborted>>

AllIdle == clr.pc = "idle" /\ \A p \in Procs : procs[p].pc = "idle"

NewCycle(kind) ==
    [IdleProc EXCEPT !.pc = "fetching", !.trigger = kind, !.cyc = count.started + 1]

\* main() constructs the bot and awaits start(): initialize(), the command
\* handlers, the schedule, and the initial check up to its fetch
Start(writeOk) ==
    /\ up = "new"
    /\ LET r == InitializeResult(file, data, now, writeOk)
       IN  /\ data' = r.data
           /\ file' = r.file
           /\ up' = IF r.raised THEN "exited" ELSE "up"
           /\ procs' = IF r.raised THEN procs ELSE [procs EXCEPT ![1] = NewCycle("start")]
           /\ count' = IF r.raised THEN count ELSE [count EXCEPT !.started = @ + 1]
    /\ now' = now + 1
    /\ UNCHANGED <<rnd, clr, sent, aborted, last, last2, ret, tokenList, parsed, env>>

\* the cron callback (line 127) or the /check handler (line 93) calls
\* checkForNewMigrations, which runs up to its fetch
Trigger(kind) ==
    /\ up = "up"
    /\ count.cycles < MaxCycles
    /\ \E p \in Procs :
          /\ procs[p].pc = "idle"
          /\ \A q \in 1 .. (p - 1) : procs[q].pc # "idle"
          /\ procs' = [procs EXCEPT ![p] = NewCycle(kind)]
    /\ count' = [count EXCEPT !.cycles = @ + 1, !.started = @ + 1]
    /\ now' = now + 1
    /\ UNCHANGED <<data, file, up, rnd, clr, sent, aborted, last, last2, ret, tokenList, parsed, env>>

\* fetchMigrations resolves: the parsed list, or [] after a failure
FetchDone(p, resp) ==
    /\ procs[p].pc = "fetching"
    /\ LET launches == fetchMigrations(resp, now, rnd)
           pr == [procs[p] EXCEPT !.resp = resp, !.launches = launches]
       IN  /\ Advance(p, pr, 1, <<>>)
           /\ rnd' = rnd + (IF resp.ok THEN DrawCount(resp.list, now) ELSE 0)
    /\ UNCHANGED <<file, up, now, clr, count, ret, tokenList, parsed, env>>

\* the fs.writeFile of saveMigration resolves or rejects
WriteDone(p, ok) ==
    /\ procs[p].pc = "writing"
    /\ file' = IF ok THEN procs[p].snap ELSE file
    /\ LET pr == [procs[p] EXCEPT !.snap = MissingFile]
       IN  IF ok
           THEN Advance(p, pr, pr.i + 1, Append(pr.news, pr.launches[pr.i]))
           ELSE /\ EndCycle(p, pr, FALSE, sent, data)
                /\ UNCHANGED <<data, sent>>
    /\ UNCHANGED <<up, now, rnd, clr, count, ret, tokenList, parsed, env>>

\* a slip: a failed sendPhoto is not followed by sendMessage
sendMigrationNotification_noFallback(migration, photoOk, textOk) ==
    IF migration.image
    THEN [photo |-> IF photoOk THEN "ok" ELSE "failed", text |-> "none",
          ok |-> IF photoOk THEN "yes" ELSE "no"]
    ELSE [photo |-> "none", text |-> IF textOk THEN "ok" ELSE "failed",
          ok |-> IF textOk THEN "yes" ELSE "no"]

\* sendMigrationNotification: with an image, sendPhoto with the message as
\* caption and, if that rejects, sendMessage with the same message; without
\* an image, sendMessage.  photo and text say what became of each call;
\* ok = "no" is the catch of line 192.
sendMigrationNotification(migration, photoOk, textOk) ==
    IF migration.image /\ photoOk
    THEN [photo |-> "ok", text |-> "none", ok |-> "yes"]
    ELSE [photo |-> IF migration.image THEN "failed" ELSE "none",
          text |-> IF textOk THEN "ok" ELSE "failed",
          ok |-> IF textOk THEN "yes" ELSE "no"]

\* the Telegram calls of one sendMigrationNotification have resolved or
\* rejected; a rejection is caught (lines 175, 192) and the loop of line 152
\* goes on
SendDone(p, photoOk, textOk) ==
    /\ procs[p].pc = "sending"
    /\ LET pr == procs[p]
           k == CHOOSE k \in DOMAIN sent : sent[k].cyc = pr.cyc /\ sent[k].ok = "pending"
           out == sendMigrationNotification(sent[k].tok, photoOk, textOk)
           log == [sent EXCEPT ![k].ok = out.ok, ![k].photo = out.photo, ![k].text = out.text]
       IN  IF pr.j < Len(pr.news)
           THEN /\ sent' = Append(log, Handed(pr, pr.news[pr.j + 1]))
                /\ procs' = [procs EXCEPT ![p] = [pr EXCEPT !.j = pr.j + 1]]
                /\ UNCHANGED <<last, last2, aborted>>
           ELSE /\ sent' = log
                /\ EndCycle(p, pr, TRUE, log, data)
    /\ UNCHANGED <<data, file, up, now, rnd, clr, count, ret, tokenList, parsed, env>>

\* the /clear handler calls clearDatabase, which runs up to its file write
ClearCmd ==
    /\ up = "up"
    /\ clr.pc = "idle"
    /\ count.clears < MaxClears
    /\ data' = clearDatabase(data, now)
    /\ clr' = [pc |-> "writing", snap |-> Stringify(clearDatabase(data, now)),
               after |-> count.started]
    /\ count' = [count EXCEPT !.clears = @ + 1]
    /\ UNCHANGED <<file, up, now, rnd, procs, sent, aborted, last, last2, ret, tokenList, parsed, env>>

ClearDone(ok) ==
    /\ clr.pc = "writing"
    /\ file' = IF ok THEN clr.snap ELSE file
    /\ clr' = [NoClear EXCEPT !.after = clr.after]
    /\ UNCHANGED <<data, up, now, rnd, procs, sent, count, aborted, last, last2,
                   ret, tokenList, parsed, env>>

\* the process ends and main() runs again on the same file.  A SIGINT runs
\* stop(), whose close() writes the ledger once more (closeOk); a crash, or a
\* failed write of close(), leaves the file as it is.
Restart(closeOk) ==
    /\ up \in {"up", "exited"}
    /\ count.restarts < MaxRestarts
    /\ file' = IF up = "up" /\ closeOk THEN Stringify(Touch(data, now)) ELSE file
    /\ data' = EmptyData(now)
    /\ up' = "new"
    /\ procs' = [p \in Procs |-> IdleProc]
    /\ clr' = NoClear
    /\ aborted' = (aborted \/ ~AllIdle)
    /\ last' = NoCycle
    /\ last2' = NoCycle
    /\ count' = [count EXCEPT !.restarts = @ + 1]
    /\ UNCHANGED <<now, rnd, sent, ret, tokenList, parsed, env>>

Init ==
    /\ data = EmptyData(0)
    /\ file \in StartFiles
    /\ up = "new"
    /\ now = 1
    /\ rnd = 0
    /\ ret = NoCall
    /\ tokenList = <<>>
    /\ parsed = NotParsed
    /\ BotIdle
    /\ env = FullEnv

\* The bot with its triggers arriving at any time, file writes and Telegram
\* calls that may fail, and the process ending at any point.  Nobody sends
\* /clear here (ClearCmd, ClearDone).
Next ==
    \/ \E w \in BOOLEAN : Start(w)
    \/ \E kind \in {"cron", "check"} : Trigger(kind)
    \/ \E p \in Procs, resp \in Responses : FetchDone(p, resp)
    \/ \E p \in Procs, ok \in BOOLEAN : WriteDone(p, ok)
    \/ \E p \in Procs, photoOk, textOk \in BOOLEAN : SendDone(p, photoOk, textOk)
    \/ \E ok \in BOOLEAN : Restart(ok)

Spec == Init /\ [][Next]_vars

\* The same bot when its triggers arrive one after the other: a trigger, and
\* the end of the process, come only while no cycle is in progress, and
\* nobody sends /clear.  The store starts from a missing, unparsable or
\* empty-ledger file.
SeqInit ==
    /\ Init
    /\ file \in {MissingFile, GarbageFile, JsonFile("ok", <<>>, 0)}

SeqNext ==
    \/ \E w \in BOOLEAN : Start(w)
    \/ \E kind \in {"cron", "check"} : AllIdle /\ Trigger(kind)
    \/ \E p \in Procs, resp \in Responses : FetchDone(p, resp)
    \/ \E p \in Procs, ok \in BOOLEAN : WriteDone(p, ok)
    \/ \E p \in Procs, photoOk, textOk \in BOOLEAN : SendDone(p, photoOk, textOk)
    \/ \E ok \in BOOLEAN : AllIdle /\ Restart(ok)

SeqSpec == SeqInit /\ [][SeqNext]_vars

\* Cycles one after the other with every fault at once: a fetch that fails,
\* a null among the fetched records, file writes and Telegram calls that
\* fail, and a ledger that initialize() left without its migrations list.
FaultFeed == {R2, R3, R4, NullRecord}

FaultResponses ==
    {FetchFailure} \cup {[ok |-> TRUE, list |-> <<a>>] : a \in FaultFeed}
                   \cup {[ok |-> TRUE, list |-> <<a, b>>] : a, b \in FaultFeed}

FaultNext ==
    \/ \E w \in BOOLEAN : Start(w)
    \/ \E kind \in {"cron", "check"} : AllIdle /\ Trigger(kind)
    \/ \E p \in Procs, resp \in FaultResponses : FetchDone(p, resp)
    \/ \E p \in Procs, ok \in BOOLEAN : WriteDone(p, ok)
    \/ \E p \in Procs, photoOk, textOk \in BOOLEAN : SendDone(p, photoOk, textOk)
    \/ \E ok \in BOOLEAN : AllIdle /\ Restart(ok)

FaultSpec == Init /\ [][FaultNext]_vars

\* The same bot with the /clear command, commands and triggers arriving one
\* after the other: /clear comes while no cycle is in progress, and the next
\* trigger when its write is done.
ClearNext ==
    \/ \E w \in BOOLEAN : Start(w)
    \/ \E kind \in {"cron", "check"} : AllIdle /\ Trigger(kind)
    \/ \E p \in Procs, resp \in Responses : FetchDone(p, resp)
    \/ \E p \in Procs, ok \in BOOLEAN : WriteDone(p, ok)
    \/ \E p \in Procs, photoOk, textOk \in BOOLEAN : SendDone(p, photoOk, textOk)
    \/ AllIdle /\ ClearCmd
    \/ \E ok \in BOOLEAN : ClearDone(ok)

ClearSpec == SeqInit /\ [][ClearNext]_vars

\* a slip: main() checks the bot token only
RequiredPresent_tokenOnly(e) == e.token

\* main(): requiredEnvVars = ['TELEGRAM_BOT_TOKEN', 'TELEGRAM_CHAT_ID'], each
\* tested with !process.env[envVar]
RequiredPresent(e) == e.token /\ e.chatId

\* main(): the validation, then new BagsFmBot() and start(); a missing
\* setting throws into the catch of main, which calls process.exit(1)
Main(writeOk) ==
    /\ up = "new"
    /\ IF RequiredPresent(env)
       THEN Start(writeOk)
       ELSE /\ up' = "exited"
            /\ UNCHANGED <<data, file, now, rnd, procs, clr, sent, count, aborted, last, last2,
                           ret, tokenList, parsed, env>>

\* the process started under every combination of the two settings, on a
\* missing file, a file with one entry and a file without a migrations list
MainInit ==
    /\ data = EmptyData(0)
    /\ file \in {MissingFile, JsonFile("nomig", <<>>, 0),
                 JsonFile("ok", <<EntryToJson(NormalizeFetch(R1, 0, 0)[1])>>, 0)}
    /\ up = "new"
    /\ now = 1
    /\ rnd = 0
    /\ ret = NoCall
    /\ tokenList = <<>>
    /\ parsed = NotParsed
    /\ BotIdle
    /\ env \in [token : BOOLEAN, chatId : BOOLEAN]

MainNext ==
    \/ \E w \in BOOLEAN : Main(w)
    \/ \E kind \in {"cron", "check"} : AllIdle /\ Trigger(kind)
    \/ \E p \in Procs, resp \in Responses : FetchDone(p, resp)
    \/ \E p \in Procs, ok \in BOOLEAN : WriteDone(p, ok)
    \/ \E p \in Procs, photoOk, textOk \in BOOLEAN : SendDone(p, photoOk, textOk)
    \/ \E ok \in BOOLEAN : AllIdle /\ Restart(ok)

MainSpec == MainInit /\ [][MainNext]_vars

\* ============================================================= properties

\* two tokens the three tiers of migrationExistsByDetails take for one
C1_SameIdentity(a, b) ==
    \/ /\ Truthy(a.contractAddress)
       /\ Truthy(b.contractAddress)
       /\ toLowerCase(a.contractAddress) = toLowerCase(b.contractAddress)
    \/ /\ Truthy(a.symbol)
       /\ Truthy(a.name)
       /\ toLowerCase(a.symbol) = toLowerCase(b.symbol)
       /\ toLowerCase(a.name) = toLowerCase(b.name)
    \/ a.id = b.id

\* C1: when cycles follow one another, every token identity is handed to
\* sendMigrationNotification exactly once, in the first cycle that fetched
\* it: no identity is handed over twice, over all cycles and restarts, and
\* every token of a finished cycle's fetch result has been handed over in
\* that cycle or an earlier one.
C1_ExactlyOnce ==
    /\ \A i, j \in DOMAIN sent :
          i # j => ~C1_SameIdentity(sent[i].tok, sent[j].tok)
    /\ last.full =>
          \A k \in DOMAIN last.launches :
             \E i \in DOMAIN sent :
                /\ C1_SameIdentity(sent[i].tok, last.launches[k])
                /\ sent[i].cyc <= last.cyc

\* C2: when two cycles in a row run to their end on the same fetch result,
\* the second hands nothing to sendMigrationNotification and leaves the
\* ledger entries as the first left them.
C2_CycleIdempotent ==
    (/\ last.full
     /\ last2.full
     /\ last.cyc = last2.cyc + 1
     /\ last.resp = last2.resp)
    => /\ last.nsent = 0
       /\ last.entries = last2.entries

\* the same non-empty fetch result twice in a row, the first cycle having
\* handed a token over
C2_Witness ==
    /\ last.full
    /\ last2.full
    /\ last.cyc = last2.cyc + 1
    /\ last.resp = last2.resp
    /\ last.resp.ok
    /\ last.resp.list # <<>>
    /\ last2.nsent >= 1
    /\ last.entries # <<>>

\* C3: at most one cycle is in progress at any time.
C3_NoOverlap ==
    Cardinality({p \in Procs : procs[p].pc # "idle"}) <= 1

\* C4: when the ledger holds an entry whose contractAddress equals the
\* token's after lower-casing both (both present), migrationExistsByDetails
\* answers true, whatever the token's symbol, name and id are.
C4_AddressDedup ==
    (/\ ret.op = "exists"
     /\ Truthy(ret.arg[1].contractAddress)
     /\ \E i \in DOMAIN data.migrations :
           /\ Truthy(data.migrations[i].contractAddress)
           /\ toLowerCase(data.migrations[i].contractAddress)
                = toLowerCase(ret.arg[1].contractAddress))
    => ret.val

\* exists() was asked about a token whose address differs from the recorded
\* one only in letter case, with another symbol, name and id, and said true
C4_Witness ==
    /\ ret.op = "exists"
    /\ ret.val
    /\ \E i \in DOMAIN data.migrations :
          /\ data.migrations[i].contractAddress # ret.arg[1].contractAddress
          /\ toLowerCase(data.migrations[i].contractAddress)
               = toLowerCase(ret.arg[1].contractAddress)
          /\ Truthy(ret.arg[1].contractAddress)
    /\ \A i \in DOMAIN data.migrations :
          /\ data.migrations[i].id # ret.arg[1].id
          /\ data.migrations[i].symbol # ret.arg[1].symbol

\* C5: for a token with no contractAddress, migrationExistsByDetails answers
\* true whenever some ledger entry has the same symbol and the same name,
\* compared without regard to letter case.
C5_SymbolNameDedup ==
    (/\ ret.op = "exists"
     /\ ~Truthy(ret.arg[1].contractAddress)
     /\ \E i \in DOMAIN data.migrations :
           /\ toLowerCase(data.migrations[i].symbol) = toLowerCase(ret.arg[1].symbol)
           /\ toLowerCase(data.migrations[i].name) = toLowerCase(ret.arg[1].name))
    => ret.val

\* exists() was asked about an address-less token whose symbol and name match
\* a recorded entry only after lower-casing, under another id, and said true
C5_Witness ==
    /\ ret.op = "exists"
    /\ ret.val
    /\ ~Truthy(ret.arg[1].contractAddress)
    /\ \A i \in DOMAIN data.migrations :
          /\ data.migrations[i].id # ret.arg[1].id
          /\ data.migrations[i].symbol # ret.arg[1].symbol
          /\ data.migrations[i].name # ret.arg[1].name
          /\ Truthy(data.migrations[i].contractAddress)

\* what C7 calls a bonding-completion signal: the completed flag of the
\* bonding curve, the migrated flag, or one of the three completion dates
C7_SignalPresent(r) ==
    \/ r.bcCompleted
    \/ r.migrated
    \/ r.migratedAt # 0
    \/ r.bondingCompletedAt # 0
    \/ r.completedAt # 0

C7_Qualifies(r) ==
    \/ C7_SignalPresent(r)
    \/ (DerivedMarketCap(r) # NoNum /\ DerivedMarketCap(r) >= McapThreshold)

RECURSIVE C7_CountQualifying(_)
C7_CountQualifying(list) ==
    IF list = <<>> THEN 0
    ELSE (IF C7_Qualifies(Head(list)) THEN 1 ELSE 0) + C7_CountQualifying(Tail(list))

\* C7: the getNewMigrations variant keeps a record exactly when a
\* bonding-completion signal is present or its market cap is at least the
\* threshold (inclusive): a record on the threshold is kept, a record just
\* below it is kept only with a signal.
C7_QualificationPredicate ==
    parsed.ranGetNew =>
       /\ Len(parsed.getNew) = C7_CountQualifying(tokenList)
       /\ \A i \in DOMAIN parsed.getNew :
             \/ parsed.getNew[i].bondingCompleted = "true"
             \/ parsed.getNew[i].marketCap >= McapThreshold

\* a record exactly on the threshold, with no signal, was kept
C7_Witness ==
    /\ parsed.ranGetNew
    /\ Len(tokenList) = 1
    /\ tokenList[1].marketCap = McapThreshold
    /\ ~C7_SignalPresent(tokenList[1])
    /\ Len(parsed.getNew) = 1

\* a token built from a record of the feed that has no bonding-completion
\* signal and no market cap at the threshold
C6_FromNonQualifying(tok) ==
    \E r \in Feed :
       /\ ~C7_Qualifies(r)
       /\ tok.contractAddress = r.tokenAddress
       /\ tok.name = r.name
       /\ tok.symbol = r.symbol

\* C6: no token built from a non-qualifying record is in the ledger or was
\* handed to sendMigrationNotification.
C6_NonQualifyingDropped ==
    /\ \A i \in DOMAIN sent : ~C6_FromNonQualifying(sent[i].tok)
    /\ \A i \in DOMAIN data.migrations : ~C6_FromNonQualifying(data.migrations[i])

\* C8: after initialize() found a missing, unparsable or wrongly shaped file
\* and the file system took its write, it has not raised, the ledger in
\* memory is a valid empty one and the file holds a valid empty snapshot.
C8_CorruptRecovery ==
    (/\ ret.op = "initialize"
     /\ ret.wok
     /\ (ret.filePre.kind # "json" \/ ret.filePre.shape # "ok"))
    => /\ ~ret.threw
       /\ data.shape = "ok"
       /\ data.migrations = <<>>
       /\ file.kind = "json"
       /\ file.shape = "ok"
       /\ file.migrations = <<>>

\* C9: a token that was recorded, written and notified before a restart is
\* found by migrationExistsByDetails once the next process has initialized.
C9_DurableAcrossRestart ==
    \A i \in DOMAIN sent :
       (/\ sent[i].ok = "yes"
        /\ sent[i].epoch < count.restarts
        /\ up = "up")
       => migrationExistsByDetails(data, sent[i].tok)

\* C10: saveMigration is an upsert keyed by id: the ledger never holds two
\* entries with the same id, and a second record(t) right after a record(t)
\* leaves the entries as the first one left them.
C10_UpsertById ==
    /\ \A i, j \in DOMAIN data.migrations :
          i # j => data.migrations[i].id # data.migrations[j].id
    /\ (ret.op = "record" /\ ret.prevOp = "record" /\ ret.arg = ret.prevArg)
          => data.migrations = ret.pre

\* record(t) ran twice in a row on a ledger that holds another entry as well
C10_Witness ==
    /\ ret.op = "record"
    /\ ret.prevOp = "record"
    /\ ret.arg = ret.prevArg
    /\ Len(data.migrations) >= 2
    /\ \E i \in DOMAIN data.migrations : data.migrations[i].id = ret.arg[1].id

\* C11: when saveMigration or clearDatabase has returned without raising, the
\* file holds a JSON text whose entries are the serialized entries of the
\* ledger in memory, one for one and in the same order, and its timestamp.
C11_FlushedOnReturn ==
    (ret.op \in {"record", "clear"} /\ ~ret.threw)
    => /\ file.kind = "json"
       /\ file.shape = "ok"
       /\ file.lastUpdated = data.lastUpdated
       /\ file.migrations = [i \in DOMAIN data.migrations |-> EntryToJson(data.migrations[i])]

\* a record() returned on a ledger of two entries, and the file holds both
C11_Witness ==
    /\ ret.op = "record"
    /\ ~ret.threw
    /\ Len(data.migrations) >= 2
    /\ Len(file.migrations) = Len(data.migrations)
    /\ Len(ret.pre) < Len(data.migrations)


\* C12: a cycle whose fetch fails ends normally in the step in which the
\* fetch resolves, and that step changes neither the ledger in memory nor
\* the file and hands nothing to sendMigrationNotification.
C12_FetchFailureNeutral ==
    [][\A p \in Procs :
          (/\ procs[p].pc = "fetching"
           /\ procs'[p].pc # "fetching"
           /\ up' = "up"
           /\ ~last'.resp.ok
           /\ last'.cyc = procs[p].cyc)
          => /\ procs'[p].pc = "idle"
             /\ last'.full
             /\ last'.nsent = 0
             /\ data' = data
             /\ file' = file
             /\ sent' = sent]_vars

\* a cycle whose fetch failed has ended on a ledger that holds an entry
C12_Witness ==
    /\ last.cyc > 0
    /\ ~last.resp.ok
    /\ last.full
    /\ last.entries # <<>>
    /\ data.migrations = last.entries


\* a record on which the loop body throws: a null, or a record whose chosen
\* migration date is not a date (toISOString raises a RangeError)
C13_Fails(r) ==
    \/ r.nul
    \/ PickMigrationField(r) = InvalidDate

RECURSIVE C13_WithoutFailing(_)
C13_WithoutFailing(list) ==
    IF list = <<>> THEN <<>>
    ELSE (IF C13_Fails(Head(list)) THEN <<>> ELSE <<Head(list)>>)
            \o C13_WithoutFailing(Tail(list))

\* C13: in both variants the output for a batch is the output for the batch
\* with its failing records taken out: same tokens, same order, same ids.
C13_FailingRecordDropped ==
    /\ parsed.ranFetch =>
          parsed.fetch = parseTokenLaunches_fetch(C13_WithoutFailing(tokenList), now, 0)
    /\ parsed.ranGetNew =>
          parsed.getNew = parseTokenLaunches_getNew(C13_WithoutFailing(tokenList), now)

\* a batch of three whose middle record fails, between two address-less
\* records that each draw an id; two tokens came out of either variant
C13_Witness ==
    /\ parsed.ranFetch
    /\ parsed.ranGetNew
    /\ Len(tokenList) = 3
    /\ C13_Fails(tokenList[2])
    /\ ~C13_Fails(tokenList[1])
    /\ ~C13_Fails(tokenList[3])
    /\ ~Truthy(tokenList[1].tokenAddress)
    /\ ~Truthy(tokenList[3].tokenAddress)
    /\ Len(parsed.fetch) = 2
    /\ Len(parsed.getNew) = 2
    /\ parsed.fetch[1].id # parsed.fetch[2].id


\* C14: no invocation of checkForNewMigrations is ever left as a rejection,
\* and once an invocation has ended, by its last statement or through its
\* catch, the process is still running.
C14_CycleNeverRaises ==
    /\ \A p \in Procs : procs[p].pc \in {"idle", "fetching", "writing", "sending"}
    /\ last.cyc > 0 => up = "up"

\* a cycle was cut short by an exception, a null was among the records of a
\* cycle, a fetch failed and a Telegram call failed; the process is running
\* and a later cycle has ended
C14_Witness ==
    /\ up = "up"
    /\ aborted
    /\ last.full
    /\ last2.cyc > 0
    /\ ~last2.full
    /\ \E k \in DOMAIN last.resp.list : last.resp.list[k].nul
    /\ \E i \in DOMAIN sent : sent[i].ok = "no"


\* the place of a token in a list of launches (0 if it is not there)
C15_IndexIn(launches, tok) ==
    IF \E k \in DOMAIN launches : launches[k] = tok
    THEN CHOOSE k \in DOMAIN launches :
            launches[k] = tok /\ \A m \in 1 .. (k - 1) : launches[m] # tok
    ELSE 0

\* C15: when a cycle has ended, every entry of the ledger has been handed to
\* sendMigrationNotification in that cycle or an earlier one; every token
\* handed over by this process is in the ledger; and the tokens a cycle
\* hands over follow one another as they do in its fetch result.
C15_RecordThenNotify ==
    /\ last.cyc > 0 =>
          \A k \in DOMAIN last.entries :
             \E i \in DOMAIN sent :
                sent[i].tok.id = last.entries[k].id /\ sent[i].cyc <= last.cyc
    /\ \A i \in DOMAIN sent :
          (sent[i].epoch = count.restarts /\ up = "up") =>
             \E k \in DOMAIN data.migrations : data.migrations[k].id = sent[i].tok.id
    /\ \A i, j \in DOMAIN sent :
          (i < j /\ sent[i].cyc = last.cyc /\ sent[j].cyc = last.cyc)
             => C15_IndexIn(last.launches, sent[i].tok) < C15_IndexIn(last.launches, sent[j].tok)


\* C16: with TELEGRAM_BOT_TOKEN or TELEGRAM_CHAT_ID unset the process never
\* gets past main(): it is constructed or has exited through process.exit(1),
\* no cycle was started, nothing was fetched or handed over, the ledger was
\* not loaded, and no step touches the file.
C16_ConfigErrorFatal ==
    /\ [](~(env.token /\ env.chatId) =>
            /\ up \in {"new", "exited"}
            /\ count.started = 0
            /\ AllIdle
            /\ sent = <<>>
            /\ data.shape = "ok"
            /\ data.migrations = <<>>)
    /\ [][~(env.token /\ env.chatId) => file' = file]_vars

\* the chat id is unset, the file holds an entry; the process has exited,
\* was started again and has exited again
C16_Witness ==
    /\ env.token
    /\ ~env.chatId
    /\ up = "exited"
    /\ count.restarts >= 1
    /\ file.kind = "json"
    /\ file.migrations # <<>>


\* C17: a call of saveMigration, migrationExistsByDetails,
\* getRecentMigrations or getStats leaves every id of the ledger in the
\* ledger.
C17_IdsOnlyGrow ==
    [][ret'.op \in {"record", "exists", "recent", "stats"} =>
          \A i \in DOMAIN data.migrations :
             \E j \in DOMAIN data'.migrations :
                data'.migrations[j].id = data.migrations[i].id]_vars

\* a token whose id the ledger held was recorded again, next to another
\* entry; both ids are in the ledger
C17_Witness ==
    /\ ret.op = "record"
    /\ Len(ret.pre) >= 2
    /\ \E i \in DOMAIN ret.pre : ret.pre[i].id = ret.arg[1].id
    /\ \A i \in DOMAIN ret.pre :
          \E j \in DOMAIN data.migrations : data.migrations[j].id = ret.pre[i].id


\* C18: after clearDatabase the ledger in memory has no entries, whatever it
\* held and whatever its shape was; and when clearDatabase returned without
\* raising, the file holds a snapshot with no entries.
C18_ClearEmpties ==
    ret.op = "clear" =>
       /\ data.shape = "ok"
       /\ data.migrations = <<>>
       /\ ~ret.threw =>
             /\ file.kind = "json"
             /\ file.shape = "ok"
             /\ file.migrations = <<>>

\* clearDatabase returned on a ledger of two entries that were on file
C18_Witness ==
    /\ ret.op = "clear"
    /\ ~ret.threw
    /\ Len(ret.pre) >= 2
    /\ Len(ret.filePre.migrations) >= 2
    /\ file.migrations = <<>>


\* C19: of every finished sendMigrationNotification: a failed sendPhoto was
\* followed by a sendMessage; it ended in failure only when sendMessage
\* failed; it succeeded exactly when one of the two calls did, and never
\* both; and a token without image was sent by sendMessage alone.
C19_NotifierFallback ==
    \A i \in DOMAIN sent :
       sent[i].ok # "pending" =>
          /\ (sent[i].tok.image /\ sent[i].photo = "failed") => sent[i].text # "none"
          /\ sent[i].ok = "no" => sent[i].text = "failed"
          /\ sent[i].ok = "yes" <=> (sent[i].photo = "ok" \/ sent[i].text = "ok")
          /\ ~(sent[i].photo = "ok" /\ sent[i].text = "ok")
          /\ sent[i].tok.image <=> sent[i].photo # "none"

\* a token with an image whose sendPhoto failed went out as text
C19_Witness ==
    \E i \in DOMAIN sent :
       /\ sent[i].tok.image
       /\ sent[i].photo = "failed"
       /\ sent[i].text = "ok"
       /\ sent[i].ok = "yes"


\* C20: getRecentMigrations returns min(limit, ledger size) entries (limit 10
\* when none is given); they are entries of the ledger, each once, with the
\* migration date as a Date; they are ordered newest first; and no entry left
\* out is newer than one returned.
C20_RecentNewestFirst ==
    ret.op = "recent" =>
       LET limit == IF ret.arg[1] = NoNum THEN DefaultLimit ELSE ret.arg[1]
           size == Len(ret.pre)
           val == ret.val
           Returned(j) == \E i \in DOMAIN val : val[i].id = ret.pre[j].id
       IN  /\ Len(val) = IF limit < size THEN limit ELSE size
           /\ \A i \in DOMAIN val :
                 \E j \in DOMAIN ret.pre :
                    val[i] = [ret.pre[j] EXCEPT !.migrationDate = DateObj(GetTime(ret.pre[j]))]
           /\ \A i, j \in DOMAIN val : i # j => val[i].id # val[j].id
           /\ \A i, j \in DOMAIN val : i < j => GetTime(val[i]) >= GetTime(val[j])
           /\ \A j \in DOMAIN ret.pre :
                 ~Returned(j) => \A i \in DOMAIN val : GetTime(ret.pre[j]) <= GetTime(val[i])

\* getRecentMigrations(1) on a ledger of two entries of different dates: the
\* entry recorded last, which push had put at the end, is the one returned
C20_Witness ==
    /\ ret.op = "recent"
    /\ ret.arg[1] = 1
    /\ Len(ret.pre) = 2
    /\ Len(ret.val) = 1
    /\ GetTime(ret.pre[1]) > GetTime(ret.pre[2])
    /\ ret.val[1].id = ret.pre[1].id
    /\ ret.prevOp = "record"
    /\ ret.prevArg[1].id = ret.pre[1].id



\* C21: getStats returns the number of ledger entries, the number of entries
\* dated at or after the start of the current day, and the number of entries
\* dated at or after the start of the day seven days before now.
C21_StatsCounts ==
    (ret.op = "stats" /\ data.shape = "ok") =>
       LET today == (now \div 24) * 24
           weekAgo == today - 7 * 24
           dates == [i \in DOMAIN data.migrations |-> data.migrations[i].migrationDate.ms]
       IN  /\ ret.val.totalMigrations = Len(data.migrations)
           /\ ret.val.migrationsToday = Cardinality({i \in DOMAIN dates : dates[i] >= today})
           /\ ret.val.migrationsThisWeek = Cardinality({i \in DOMAIN dates : dates[i] >= weekAgo})

\* getStats in the morning on a ledger of two entries: one dated the first
\* hour of today, one the first hour of the day a week ago
C21_Witness ==
    /\ ret.op = "stats"
    /\ now > StatsDay
    /\ Len(data.migrations) = 2
    /\ data.migrations[1].migrationDate.ms = StatsDay
    /\ data.migrations[2].migrationDate.ms = StatsWeekAgo
    /\ ret.val = [totalMigrations |-> 2, migrationsToday |-> 1, migrationsThisWeek |-> 2]



C23_DatePriority ==
    LET r == tokenList[1]
        chain == <<r.bcCompletedAt, r.migratedAt, r.launchedAt, r.bondingCompletedAt,
                   r.completedAt, r.createdAt>>
        present == {i \in DOMAIN chain : chain[i] # 0}
        expected == IF present = {} THEN now
                    ELSE chain[CHOOSE i \in present : \A j \in present : i <= j]
    IN  (Len(tokenList) = 1 /\ ~r.nul /\ r.migratedAt # InvalidDate) =>
           /\ parsed.ranFetch =>
                 /\ Len(parsed.fetch) = 1
                 /\ parsed.fetch[1].migrationDate = [ms |-> expected, json |-> FALSE]
           /\ (parsed.ranGetNew /\ parsed.getNew # <<>>) =>
                 parsed.getNew[1].migrationDate = [ms |-> expected, json |-> FALSE]

\* a record with launchedAt and createdAt and no field before them in the
\* chain went through both parsers and came out dated launchedAt
C23_Witness ==
    /\ Len(tokenList) = 1
    /\ tokenList[1].bcCompletedAt = 0
    /\ tokenList[1].migratedAt = 0
    /\ tokenList[1].launchedAt # 0
    /\ tokenList[1].bondingCompletedAt # 0
    /\ tokenList[1].createdAt # 0
    /\ tokenList[1].createdAt # tokenList[1].launchedAt
    /\ parsed.ranFetch
    /\ parsed.ranGetNew
    /\ parsed.fetch[1].migrationDate.ms = tokenList[1].launchedAt
    /\ parsed.getNew[1].migrationDate.ms = tokenList[1].launchedAt



\* C24: of every normalized token, bondingDuration is present exactly when
\* its migration date is after its creation date; it is then their
\* difference in hours, a positive number.
C24_BondingDuration ==
    \A t \in {parsed.fetch[i] : i \in DOMAIN parsed.fetch}
               \cup {parsed.getNew[i] : i \in DOMAIN parsed.getNew} :
       LET q == t.migrationDate.ms
           c == t.createdAt.ms
       IN  /\ (t.bondingDuration # NoNum) <=> (q > c)
           /\ (t.bondingDuration # NoNum) => (t.bondingDuration = q - c /\ t.bondingDuration > 0)

\* both parsers ran on a record created at the instant it migrated, and left
\* bondingDuration out
C24_Witness ==
    /\ parsed.ranFetch
    /\ parsed.ranGetNew
    /\ Len(parsed.fetch) = 1
    /\ Len(parsed.getNew) = 1
    /\ tokenList[1].createdAt # 0
    /\ parsed.fetch[1].migrationDate.ms = parsed.fetch[1].createdAt.ms
    /\ parsed.fetch[1].bondingDuration = NoNum
    /\ parsed.getNew[1].bondingDuration = NoNum



\* C25: the marketCap of a normalized token is the record's marketCap
\* whenever the record has one, 0 included, and differs from it only when
\* the record has none and has a price, being then the price times
\* 1,000,000,000; a record of price 0.0001 without marketCap comes out of
\* the getNewMigrations variant with 100,000.
C25_MarketCapSource ==
    LET r == tokenList[1]
        Out == (IF parsed.ranFetch THEN {parsed.fetch[i] : i \in DOMAIN parsed.fetch} ELSE {})
                  \cup {parsed.getNew[i] : i \in DOMAIN parsed.getNew}
        OfPrice == r.price.num * (1000000000 \div r.price.den)
    IN  Len(tokenList) = 1 =>
           /\ \A t \in Out :
                 /\ r.marketCap # NoNum => t.marketCap = r.marketCap
                 /\ t.marketCap # r.marketCap =>
                       (r.marketCap = NoNum /\ r.price.num # NoNum /\ t.marketCap = OfPrice)
           /\ (/\ parsed.ranGetNew
               /\ r.marketCap = NoNum
               /\ r.price = [num |-> 1, den |-> 10000])
              => (Len(parsed.getNew) = 1 /\ parsed.getNew[1].marketCap = 100000)



\* C26: the id of a normalized token is never empty, is the record's
\* tokenAddress when it has one, and is the same whenever the same record is
\* normalized again: two cycles that fetched the same record gave it the
\* same id.
C26_DeterministicId ==
    LET Ran(c) == c.cyc # 0 /\ c.resp.ok /\ Len(c.launches) = Len(c.resp.list)
    IN  /\ \A c \in {last, last2} :
              Ran(c) =>
                 \A k \in DOMAIN c.launches :
                    /\ c.launches[k].id # <<>>
                    /\ c.resp.list[k].tokenAddress # <<>>
                          => c.launches[k].id = c.resp.list[k].tokenAddress
        /\ (Ran(last) /\ Ran(last2)) =>
              \A k \in DOMAIN last.launches, j \in DOMAIN last2.launches :
                 last.resp.list[k] = last2.resp.list[j]
                    => last.launches[k].id = last2.launches[j].id



\* C27: the entries of the ledger in memory are in descending order of
\* migration date, and so are the entries of the file.
C27_SortedNewestFirst ==
    /\ \A i, j \in DOMAIN data.migrations :
          i < j => data.migrations[i].migrationDate.ms >= data.migrations[j].migrationDate.ms
    /\ \A i, j \in DOMAIN file.migrations :
          i < j => file.migrations[i].migrationDate.ms >= file.migrations[j].migrationDate.ms

\* a ledger loaded from the file by initialize() took a record() of a later
\* date, which stands in front of the loaded entry
C27_Witness ==
    /\ ret.op = "record"
    /\ ~ret.threw
    /\ Len(data.migrations) = 2
    /\ data.migrations[2].migrationDate.json
    /\ ~data.migrations[1].migrationDate.json
    /\ data.migrations[1].migrationDate.ms > data.migrations[2].migrationDate.ms
    /\ data.migrations[1].id = ret.arg[1].id



\* C28: whatever cycles of one process overlap, no two of them hand tokens
\* of one identity to sendMigrationNotification.
C28_OncePerOverlap ==
    \A i, j \in DOMAIN sent :
       (/\ sent[i].cyc # sent[j].cyc
        /\ sent[i].epoch = sent[j].epoch)
       => ~C1_SameIdentity(sent[i].tok, sent[j].tok)

\* a cycle that started later fetched a token the earlier cycle had handed
\* over, and ran to its end without handing anything over, while the earlier
\* cycle was still awaiting its notification
C28_Witness ==
    /\ last.full
    /\ last.nsent = 0
    /\ \E p \in Procs, i \in DOMAIN sent, k \in DOMAIN last.launches :
          /\ procs[p].pc = "sending"
          /\ procs[p].cyc < last.cyc
          /\ sent[i].cyc = procs[p].cyc
          /\ sent[i].epoch = count.restarts
          /\ C1_SameIdentity(sent[i].tok, last.launches[k])



\* C29: in a process none of whose writes failed, whenever no write is in
\* flight the file holds the entries of the ledger in memory, one for one
\* and in the same order.
C29_LastWriteIsNewest ==
    (/\ up = "up"
     /\ ~aborted
     /\ \A p \in Procs : procs[p].pc # "writing")
    => /\ file.kind = "json"
       /\ file.migrations = [i \in DOMAIN data.migrations |-> EntryToJson(data.migrations[i])]



\* C30: a failed notification stops nothing and is never made up for: a
\* cycle that ran to its end has handed every one of its new tokens to
\* sendMigrationNotification, whatever became of the earlier ones; a token
\* whose notification failed is found by migrationExistsByDetails as long as
\* a process is running; and no token of its identity is handed over again.
C30_FailureAbsorbed ==
    /\ last.full => last.nsent = last.nnew
    /\ \A i \in DOMAIN sent :
          sent[i].ok = "no" =>
             /\ up = "up" => migrationExistsByDetails(data, sent[i].tok)
             /\ \A j \in DOMAIN sent :
                   j # i => ~C1_SameIdentity(sent[i].tok, sent[j].tok)

\* the same within one process: the failed token is looked for in the process
\* that tried to send it, and among the tokens that process handed over
C30_AbsorbedInProcess ==
    /\ last.full => last.nsent = last.nnew
    /\ \A i \in DOMAIN sent :
          (sent[i].ok = "no" /\ sent[i].epoch = count.restarts) =>
             /\ up = "up" => migrationExistsByDetails(data, sent[i].tok)
             /\ \A j \in DOMAIN sent :
                   (j # i /\ sent[j].epoch = sent[i].epoch)
                      => ~C1_SameIdentity(sent[i].tok, sent[j].tok)



\* C31: when saveMigration raised, the entries of the ledger in memory are
\* those it found, and a token that no entry matched before the call is
\* still denied by migrationExistsByDetails after it.
C31_FailedRecordRolledBack ==
    (ret.op = "record" /\ ret.threw) =>
       /\ data.migrations = ret.pre
       /\ ~migrationExistsByDetails([data EXCEPT !.migrations = ret.pre], ret.arg[1])
             => ~migrationExistsByDetails(data, ret.arg[1])



\* C32: a token with a contractAddress is denied by migrationExistsByDetails
\* when every ledger entry carries a contractAddress that differs from the
\* token's even in lower case, whatever symbols and names they share.
C32_AddressesDistinguish ==
    (/\ ret.op = "exists"
     /\ Truthy(ret.arg[1].contractAddress)
     /\ \A i \in DOMAIN ret.pre :
           /\ Truthy(ret.pre[i].contractAddress)
           /\ toLowerCase(ret.pre[i].contractAddress) # toLowerCase(ret.arg[1].contractAddress))
    => ~ret.val



\* C33: the cycle that follows a /clear and runs to its end has handed to
\* sendMigrationNotification a token for every launch of its fetch result,
\* and the ledger holds an entry for every one of them.
C33_ClearForgets ==
    (/\ clr.after > 0
     /\ last.full
     /\ last.cyc = clr.after + 1)
    => \A k \in DOMAIN last.launches :
          /\ \E i \in DOMAIN sent :
                /\ sent[i].cyc = last.cyc
                /\ C1_SameIdentity(sent[i].tok, last.launches[k])
          /\ \E m \in DOMAIN last.entries :
                C1_SameIdentity(last.entries[m], last.launches[k])

\* a token handed over before the /clear was fetched by the cycle after it
\* and handed over again
C33_Witness ==
    /\ clr.after > 0
    /\ last.full
    /\ last.cyc = clr.after + 1
    /\ \E i, j \in DOMAIN sent :
          /\ sent[i].cyc <= clr.after
          /\ sent[i].ok = "yes"
          /\ sent[j].cyc = last.cyc
          /\ sent[i].tok.contractAddress = sent[j].tok.contractAddress
          /\ sent[i].tok.symbol = sent[j].tok.symbol
          /\ sent[i].tok.name = sent[j].tok.name



\* C34: a step that is a call of migrationExistsByDetails,
\* getRecentMigrations or getStats leaves the ledger in memory (entries,
\* order, lastUpdated, and its shape when it is no proper ledger) and the
\* file as they were.
C34_QueriesReadOnly ==
    [][ret'.op \in {"exists", "recent", "stats"} => (data' = data /\ file' = file)]_vars

\* getStats returned on a ledger of two entries that are on file
C34_Witness ==
    /\ ret.op = "stats"
    /\ Len(data.migrations) >= 2
    /\ data.migrations = ret.pre
    /\ file = ret.filePre
    /\ Len(file.migrations) >= 2

====
